---- MODULE Spec2Model ----
(***************************************************************************)
(* The cleaning pipeline of cambridge_carpark_usage.ipynb: one action per  *)
(* notebook code cell that changes ge_data, executed top to bottom.        *)
(* A text is a sequence of one-character strings; a cell is a record       *)
(* [k, s, n] whose kind k says which pandas value it is.                   *)
(***************************************************************************)
EXTENDS Integers, Sequences, FiniteSets, TLC

VARIABLES csv, ge_data, labels, dtype, dayCategories, slices,
          pc, failedAt, pass, prev, last, cleaned

vars == <<csv, ge_data, labels, dtype, dayCategories, slices,
          pc, failedAt, pass, prev, last, cleaned>>

(* ------------------------------ bounds -------------------------------- *)

MaxRows == 2

(* ------------------------------ columns ------------------------------- *)

Cols ==
  {"Date", "Day", "Up to 1 hr", "1 to 2 hrs", "2 to 3 hrs", "3 to 4 hrs",
   "4 to 5 hrs", "5 to 6 hrs", "6 to <24 hours", "24 hours +",
   "Total Exc Sub", "Subscribers", "Comments"}

CoerceOrder ==
  <<"1 to 2 hrs", "2 to 3 hrs", "3 to 4 hrs", "4 to 5 hrs", "5 to 6 hrs",
    "6 to <24 hours", "24 hours +", "Subscribers", "Total Exc Sub">>

NumericCols == {"Up to 1 hr"} \cup {CoerceOrder[i] : i \in 1..Len(CoerceOrder)}

CanonLabel(c) ==
  CASE c = "Date" -> <<"D","a","t","e">>
    [] c = "Day" -> <<"D","a","y">>
    [] c = "Up to 1 hr" -> <<"U","p"," ","t","o"," ","1"," ","h","r">>
    [] c = "1 to 2 hrs" -> <<"1"," ","t","o"," ","2"," ","h","r","s">>
    [] c = "2 to 3 hrs" -> <<"2"," ","t","o"," ","3"," ","h","r","s">>
    [] c = "3 to 4 hrs" -> <<"3"," ","t","o"," ","4"," ","h","r","s">>
    [] c = "4 to 5 hrs" -> <<"4"," ","t","o"," ","5"," ","h","r","s">>
    [] c = "5 to 6 hrs" -> <<"5"," ","t","o"," ","6"," ","h","r","s">>
    [] c = "6 to <24 hours" ->
         <<"6"," ","t","o"," ","<","2","4"," ","h","o","u","r","s">>
    [] c = "24 hours +" -> <<"2","4"," ","h","o","u","r","s"," ","+">>
    [] c = "Total Exc Sub" ->
         <<"T","o","t","a","l"," ","E","x","c"," ","S","u","b">>
    [] c = "Subscribers" ->
         <<"S","u","b","s","c","r","i","b","e","r","s">>
    [] c = "Comments" -> <<"C","o","m","m","e","n","t","s">>

(* ------------------------------- cells -------------------------------- *)

StrCell(t) == [k |-> "str", s |-> t, n |-> 0]
IntCell(v) == [k |-> "int", s |-> <<>>, n |-> v]
FltCell(v) == [k |-> "float", s |-> <<>>, n |-> v]
CatCell(t) == [k |-> "cat", s |-> t, n |-> 0]
DateCell(v) == [k |-> "date", s |-> <<>>, n |-> v]
Null == [k |-> "null", s |-> <<>>, n |-> 0]

(* ------------------------------- text --------------------------------- *)

Digits == {"0", "1", "2", "3", "4", "5", "6", "7", "8", "9"}

DigitVal(c) ==
  CASE c = "0" -> 0 [] c = "1" -> 1 [] c = "2" -> 2 [] c = "3" -> 3
    [] c = "4" -> 4 [] c = "5" -> 5 [] c = "6" -> 6 [] c = "7" -> 7
    [] c = "8" -> 8 [] c = "9" -> 9

RECURSIVE LStrip(_)
LStrip(t) == IF t # <<>> /\ Head(t) = " " THEN LStrip(Tail(t)) ELSE t

RECURSIVE RStrip(_)
RStrip(t) ==
  IF t # <<>> /\ t[Len(t)] = " " THEN RStrip(SubSeq(t, 1, Len(t) - 1)) ELSE t

Strip(t) == RStrip(LStrip(t))

AllDigits(t) == Len(t) > 0 /\ \A i \in 1..Len(t) : t[i] \in Digits

RECURSIVE DigitsVal(_)
DigitsVal(t) ==
  IF t = <<>> THEN 0
  ELSE 10 * DigitsVal(SubSeq(t, 1, Len(t) - 1)) + DigitVal(t[Len(t)])

IsIntText(t) ==
  LET u == Strip(t) IN
    /\ u # <<>>
    /\ IF Head(u) \in {"-", "+"} THEN AllDigits(Tail(u)) ELSE AllDigits(u)

IntOfText(t) ==
  LET u == Strip(t) IN
    IF Head(u) = "-" THEN 0 - DigitsVal(Tail(u))
    ELSE IF Head(u) = "+" THEN DigitsVal(Tail(u))
    ELSE DigitsVal(u)

(* --------------------------- pd.read_csv ------------------------------ *)

ColIsInt(T, c) ==
  \A i \in 1..Len(T) : T[i][c].k = "str" /\ IsIntText(T[i][c].s)

ColIsFloat(T, c) ==
  /\ ~ColIsInt(T, c)
  /\ \A i \in 1..Len(T) :
       T[i][c].k = "null" \/ (T[i][c].k = "str" /\ IsIntText(T[i][c].s))

InferDtype(T, c) ==
  IF ColIsInt(T, c) THEN "int64"
  ELSE IF ColIsFloat(T, c) THEN "float64" ELSE "object"

InferCell(T, c, cell) ==
  IF cell.k = "null" THEN Null
  ELSE IF ColIsInt(T, c) THEN IntCell(IntOfText(cell.s))
  ELSE IF ColIsFloat(T, c) THEN FltCell(IntOfText(cell.s))
  ELSE cell

ReadCsvTable(T) ==
  [i \in 1..Len(T) |-> [c \in Cols |-> InferCell(T, c, T[i][c])]]

(* ---------------------------- column access --------------------------- *)

HasLabel(L, c) == \E d \in Cols : L[d] = CanonLabel(c)

\* ge_data[c] = V: the column replaced by a series of the same length.
SetCol(T, c, V) == [i \in 1..Len(T) |-> [T[i] EXCEPT ![c] = V[i]]]

(* ------------------------- Day as a categorical ----------------------- *)

DayCats ==
  << <<"M","o","n">>, <<"T","u","e">>, <<"W","e","d">>, <<"T","h","u">>,
     <<"F","r","i">>, <<"S","a","t">>, <<"S","u","n">> >>

\* A conversion that keeps values outside the category list as they are.
ToCategoryKeep(cell) ==
  IF cell.k = "str" /\ \E i \in 1..Len(DayCats) : DayCats[i] = cell.s
  THEN CatCell(cell.s) ELSE cell

ToCategory(cell) ==
  IF cell.k = "str" /\ \E i \in 1..Len(DayCats) : DayCats[i] = cell.s
  THEN CatCell(cell.s) ELSE Null

Categorical(T) == [i \in 1..Len(T) |-> ToCategory(T[i]["Day"])]

(* ----------------------------- pd.to_datetime ------------------------- *)

DateKey(y, m, d) == y * 10000 + m * 100 + d

IsLeap(y) == (y % 4 = 0 /\ y % 100 # 0) \/ y % 400 = 0

DaysIn(m, y) ==
  IF m = 2 THEN (IF IsLeap(y) THEN 29 ELSE 28)
  ELSE IF m \in {4, 6, 9, 11} THEN 30 ELSE 31

\* format "%d/%m/%Y": one or two digits, "/", one or two digits, "/", four
\* digits, the whole text consumed; the first field is the day.
DateShape(t, dl, ml) ==
  /\ Len(t) = dl + ml + 6
  /\ AllDigits(SubSeq(t, 1, dl))
  /\ t[dl + 1] = "/"
  /\ AllDigits(SubSeq(t, dl + 2, dl + ml + 1))
  /\ t[dl + ml + 2] = "/"
  /\ AllDigits(SubSeq(t, dl + ml + 3, dl + ml + 6))

DateFields(t) ==
  LET sh == CHOOSE p \in {1, 2} \X {1, 2} : DateShape(t, p[1], p[2]) IN
    [d |-> DigitsVal(SubSeq(t, 1, sh[1])),
     m |-> DigitsVal(SubSeq(t, sh[1] + 2, sh[1] + sh[2] + 1)),
     y |-> DigitsVal(SubSeq(t, sh[1] + sh[2] + 3, sh[1] + sh[2] + 6))]

CanParseDate(cell) ==
  \/ cell.k = "null"
  \/ /\ cell.k = "str"
     /\ \E p \in {1, 2} \X {1, 2} : DateShape(cell.s, p[1], p[2])
     /\ LET f == DateFields(cell.s) IN
          f.m \in 1..12 /\ f.d \in 1..DaysIn(f.m, f.y)

ParseDate(cell) ==
  IF cell.k = "null" THEN Null
  ELSE LET f == DateFields(cell.s) IN DateCell(DateKey(f.y, f.m, f.d))

ToDatetime(T) == [i \in 1..Len(T) |-> ParseDate(T[i]["Date"])]

(* --------------------------- whitespace_remover ----------------------- *)

StripCell(cell) == IF cell.k = "str" THEN StrCell(Strip(cell.s)) ELSE Null

StripLabels(L) == [c \in Cols |-> Strip(L[c])]

StripTable(T, D) ==
  [i \in 1..Len(T) |->
     [c \in Cols |-> IF D[c] = "object" THEN StripCell(T[i][c]) ELSE T[i][c]]]

(* ------------------------------ replacements -------------------------- *)

TxtDash == <<"-">>
Txt1678 == <<"1", ",", "6", "7", "8">>
TxtZero == <<"0">>
Typo167 == 167

\* The replacement without the entry for the typo.
ReplaceUpTo1DashOnly(cell) ==
  IF cell = StrCell(TxtDash) THEN IntCell(0) ELSE cell

ReplaceUpTo1(cell) ==
  IF cell = StrCell(TxtDash) THEN IntCell(0)
  ELSE IF cell = StrCell(Txt1678) THEN IntCell(Typo167)
  ELSE cell

ReplacedUpTo1(T) == [i \in 1..Len(T) |-> ReplaceUpTo1(T[i]["Up to 1 hr"])]

\* replace(0, '-'): the two arguments swapped.
ReplaceDashSwapped(cell) ==
  IF cell = IntCell(0) THEN StrCell(TxtDash) ELSE cell

ReplaceDash(cell) == IF cell = StrCell(TxtDash) THEN IntCell(0) ELSE cell

ReplaceDashTable(T) ==
  [i \in 1..Len(T) |-> [c \in Cols |-> ReplaceDash(T[i][c])]]

ReplaceZeroComment(cell) == IF cell = StrCell(TxtZero) THEN Null ELSE cell

ZeroCommentsToNan(T) ==
  [i \in 1..Len(T) |-> ReplaceZeroComment(T[i]["Comments"])]

(* ------------------------------ astype('int64') ----------------------- *)

CanCast(cell) ==
  \/ cell.k \in {"int", "float"}
  \/ cell.k = "str" /\ IsIntText(cell.s)

CastInt(cell) ==
  IF cell.k = "str" THEN IntCell(IntOfText(cell.s)) ELSE IntCell(cell.n)

ColCastable(T, c) == \A i \in 1..Len(T) : CanCast(T[i][c])

AsInt64(T, c) == [i \in 1..Len(T) |-> CastInt(T[i][c])]

\* astype('int64', errors='ignore'): a column that cannot be cast is left as
\* it is and the cell goes on.
RECURSIVE CoerceFromIgnore(_, _)
CoerceFromIgnore(T, j) ==
  IF j > Len(CoerceOrder) THEN [t |-> T, fail |-> "", upto |-> j]
  ELSE IF ColCastable(T, CoerceOrder[j])
       THEN CoerceFromIgnore(SetCol(T, CoerceOrder[j], AsInt64(T, CoerceOrder[j])), j + 1)
       ELSE CoerceFromIgnore(T, j + 1)

RECURSIVE CoerceFrom(_, _)
CoerceFrom(T, j) ==
  IF j > Len(CoerceOrder) THEN [t |-> T, fail |-> "", upto |-> j]
  ELSE IF ColCastable(T, CoerceOrder[j])
       THEN CoerceFrom(SetCol(T, CoerceOrder[j], AsInt64(T, CoerceOrder[j])), j + 1)
       ELSE [t |-> T, fail |-> CoerceOrder[j], upto |-> j]

(* ------------------------------ negative clip ------------------------- *)

\* The floor with its threshold off by one.
ClipValueBelowMinusOne(x) == IF x < -1 THEN 0 ELSE x

ClipValue(x) == IF x < 0 THEN 0 ELSE x

ClipCell(cell) == IntCell(ClipValue(cell.n))

Clipped(T) == [i \in 1..Len(T) |-> ClipCell(T[i]["Total Exc Sub"])]

(* ------------------------------ year slices --------------------------- *)

FirstYear == 2018
LastYear == 2022
Years == FirstYear..LastYear

\* The range with its end date left out.
InYearEndExcluded(cell, y) ==
  /\ cell.k = "date"
  /\ cell.n >= DateKey(y, 1, 1)
  /\ cell.n < DateKey(y, 12, 31)

InYear(cell, y) ==
  /\ cell.k = "date"
  /\ cell.n >= DateKey(y, 1, 1)
  /\ cell.n <= DateKey(y, 12, 31)

RECURSIVE SliceYear(_, _)
SliceYear(T, y) ==
  IF T = <<>> THEN <<>>
  ELSE IF InYear(Head(T)["Date"], y)
       THEN <<Head(T)>> \o SliceYear(Tail(T), y)
       ELSE SliceYear(Tail(T), y)

(* ------------------------------- inputs ------------------------------- *)

\* The rows of the delimited file: a typical row, and that row with one
\* field replaced by a token the notebook's cells are written for (or trip on).
BaseRow ==
  [c \in Cols |->
     IF c = "Date" THEN StrCell(<<"0","2","/","0","1","/","2","0","2","0">>)
     ELSE IF c = "Day" THEN StrCell(<<"M","o","n">>)
     ELSE IF c = "Comments" THEN StrCell(<<"o","k">>)
     ELSE StrCell(<<"1","2">>)]

Deviations ==
  {<<"Up to 1 hr", StrCell(TxtDash)>>,
   <<"Up to 1 hr", StrCell(Txt1678)>>,
   <<"Up to 1 hr", StrCell(<<"2",",","5">>)>>,
   <<"1 to 2 hrs", StrCell(Txt1678)>>,
   <<"Subscribers", StrCell(<<"-","5">>)>>,
   <<"Subscribers", StrCell(<<"2",",","5">>)>>,
   <<"Total Exc Sub", StrCell(TxtDash)>>,
   <<"Total Exc Sub", StrCell(<<"-","1">>)>>,
   <<"Day", StrCell(<<" ","M","o","n"," ">>)>>,
   <<"Day", StrCell(<<"M","o","n","d","a","y">>)>>,
   <<"Date", StrCell(<<"0","1","/","0","1","/","2","0","1","8">>)>>,
   <<"Date", StrCell(<<"3","1","/","1","2","/","2","0","1","8">>)>>,
   <<"Date", StrCell(<<"0","1","/","0","1","/","2","0","1","9">>)>>,
   <<"Date", StrCell(<<"0","1","/","0","1","/","2","0","2","3">>)>>,
   <<"Date", StrCell(<<"3","1","/","0","2","/","2","0","2","0">>)>>,
   <<"Date", Null>>,
   <<"Comments", StrCell(TxtZero)>>,
   <<"Comments", StrCell(TxtDash)>>,
   <<"Comments", StrCell(<<" ","h","i"," ">>)>>}

RawRows == {BaseRow} \cup {[BaseRow EXCEPT ![d[1]] = d[2]] : d \in Deviations}

RawTables == UNION {[1..n -> RawRows] : n \in 1..MaxRows}

Pad(t) == <<" ">> \o t \o <<" ">>

\* The header row: trimmed labels, or labels written with surrounding blanks.
Headers ==
  {[c \in Cols |-> IF c \in P THEN Pad(CanonLabel(c)) ELSE CanonLabel(c)] :
     P \in {{}, NumericCols \cup {"Comments"}, {"Day"}, {"Date"}}}

NoSlices == [y \in Years |-> <<>>]

(* ------------------------------- actions ------------------------------ *)

Init ==
  /\ csv \in RawTables
  /\ ge_data = <<>>
  /\ labels \in Headers
  /\ dtype = [c \in Cols |-> "object"]
  /\ dayCategories = <<>>
  /\ slices = NoSlices
  /\ pc = "read"
  /\ failedAt = ""
  /\ pass = 1
  /\ prev = <<>>
  /\ last = ""
  /\ cleaned = <<>>

\* Every step records the table it started from and its own name.
Step(stage) == prev' = ge_data /\ last' = stage

Raise(stage, at) ==
  /\ Step(stage)
  /\ pc' = "failed"
  /\ failedAt' = at

ReadCsv ==
  /\ pc = "read"
  /\ ge_data' = ReadCsvTable(csv)
  /\ dtype' = [c \in Cols |-> InferDtype(csv, c)]
  /\ prev' = csv /\ last' = "read"
  /\ pc' = "day"
  /\ UNCHANGED <<csv, labels, dayCategories, slices, failedAt, pass,
                 cleaned>>

DayCategorical ==
  /\ pc = "day"
  /\ IF HasLabel(labels, "Day")
     THEN /\ ge_data' = SetCol(ge_data, "Day", Categorical(ge_data))
          /\ dtype' = [dtype EXCEPT !["Day"] = "category"]
          /\ dayCategories' = DayCats
          /\ Step("day")
          /\ pc' = "date"
          /\ UNCHANGED failedAt
     ELSE /\ Raise("day", "Day")
          /\ UNCHANGED <<ge_data, dtype, dayCategories>>
  /\ UNCHANGED <<csv, labels, slices, pass, cleaned>>

DateToDatetime ==
  /\ pc = "date"
  /\ IF HasLabel(labels, "Date")
        /\ \A i \in 1..Len(ge_data) : CanParseDate(ge_data[i]["Date"])
     THEN /\ ge_data' = SetCol(ge_data, "Date", ToDatetime(ge_data))
          /\ dtype' = [dtype EXCEPT !["Date"] = "datetime64"]
          /\ Step("date")
          /\ pc' = "strip"
          /\ UNCHANGED failedAt
     ELSE /\ Raise("date", "Date")
          /\ UNCHANGED <<ge_data, dtype>>
  /\ UNCHANGED <<csv, labels, dayCategories, slices, pass, cleaned>>

WhitespaceRemover ==
  /\ pc = "strip"
  /\ labels' = StripLabels(labels)
  /\ ge_data' = StripTable(ge_data, dtype)
  /\ Step("strip")
  /\ pc' = "upto1"
  /\ UNCHANGED <<csv, dtype, dayCategories, slices, failedAt, pass,
                 cleaned>>

RepairUpTo1hr ==
  /\ pc = "upto1"
  /\ LET R == SetCol(ge_data, "Up to 1 hr", ReplacedUpTo1(ge_data)) IN
       IF ColCastable(R, "Up to 1 hr")
       THEN /\ ge_data' = SetCol(R, "Up to 1 hr", AsInt64(R, "Up to 1 hr"))
            /\ dtype' = [dtype EXCEPT !["Up to 1 hr"] = "int64"]
            /\ Step("upto1")
            /\ pc' = "replace"
            /\ UNCHANGED failedAt
       ELSE /\ ge_data' = R
            /\ Raise("upto1", "Up to 1 hr")
            /\ UNCHANGED dtype
  /\ UNCHANGED <<csv, labels, dayCategories, slices, pass, cleaned>>

GlobalReplace ==
  /\ pc = "replace"
  /\ ge_data' = ReplaceDashTable(ge_data)
  /\ Step("replace")
  /\ pc' = "coerce"
  /\ UNCHANGED <<csv, labels, dtype, dayCategories, slices, failedAt,
                 pass, cleaned>>

CoerceRest ==
  /\ pc = "coerce"
  /\ LET r == CoerceFrom(ge_data, 1) IN
       /\ ge_data' = r.t
       /\ dtype' = [c \in Cols |->
                      IF \E j \in 1..(r.upto - 1) : CoerceOrder[j] = c
                      THEN "int64" ELSE dtype[c]]
       /\ IF r.fail = ""
          THEN Step("coerce") /\ pc' = "comments" /\ UNCHANGED failedAt
          ELSE Raise("coerce", r.fail)
  /\ UNCHANGED <<csv, labels, dayCategories, slices, pass, cleaned>>

CommentsNormalise ==
  /\ pc = "comments"
  /\ ge_data' = SetCol(ge_data, "Comments", ZeroCommentsToNan(ge_data))
  /\ Step("comments")
  /\ pc' = "clip"
  /\ UNCHANGED <<csv, labels, dtype, dayCategories, slices, failedAt,
                 pass, cleaned>>

\* The negative rows filtered out of the table instead of floored.
ClipNegativeDropRows ==
  /\ pc = "clip"
  /\ ge_data' = SelectSeq(ge_data, LAMBDA r : r["Total Exc Sub"].n >= 0)
  /\ Step("clip")
  /\ pc' = "explore"
  /\ UNCHANGED <<csv, labels, dtype, dayCategories, slices, failedAt,
                 pass, cleaned>>

ClipNegative ==
  /\ pc = "clip"
  /\ ge_data' = SetCol(ge_data, "Total Exc Sub", Clipped(ge_data))
  /\ Step("clip")
  /\ pc' = "explore"
  /\ UNCHANGED <<csv, labels, dtype, dayCategories, slices, failedAt,
                 pass, cleaned>>

\* describe() and the two box plots read the table.
Explore ==
  /\ pc = "explore"
  /\ Step("explore")
  /\ pc' = "slice"
  /\ UNCHANGED <<csv, ge_data, labels, dtype, dayCategories, slices,
                 failedAt, pass, cleaned>>

YearSlices ==
  /\ pc = "slice"
  /\ slices' = [y \in Years |-> SliceYear(ge_data, y)]
  /\ Step("slice")
  /\ pc' = "done"
  /\ UNCHANGED <<csv, ge_data, labels, dtype, dayCategories, failedAt,
                 pass, cleaned>>

\* The repair cells run a second time on the cleaned table.
RerunRepair ==
  /\ pc = "explore"
  /\ pass = 1
  /\ pass' = 2
  /\ cleaned' = ge_data
  /\ Step("rerun")
  /\ pc' = "upto1"
  /\ UNCHANGED <<csv, ge_data, labels, dtype, dayCategories, slices,
                 failedAt>>

Next ==
  \/ ReadCsv
  \/ DayCategorical
  \/ DateToDatetime
  \/ WhitespaceRemover
  \/ RepairUpTo1hr
  \/ GlobalReplace
  \/ CoerceRest
  \/ CommentsNormalise
  \/ ClipNegative
  \/ Explore
  \/ YearSlices
  \/ RerunRepair

Spec == Init /\ [][Next]_vars

(* ------------------------------- claims ------------------------------- *)

\* The cleaning cells (through the negative clip) have all run.
Cleaned == pc \in {"explore", "slice", "done"}

Rows == 1..Len(ge_data)

TrimmedText(cell) == IF cell.k = "str" THEN Strip(cell.s) ELSE <<>>

\* C1: once the cleaning pipeline has completed, every row holds a
\* non-negative integer in each of the nine numeric columns and in
\* 'Total Exc Sub', whatever the raw cells were.
C1_AllCountsNonNegative ==
  Cleaned =>
    \A i \in Rows : \A c \in NumericCols :
      ge_data[i][c].k = "int" /\ ge_data[i][c].n >= 0

\* C2: the negative clip turns every negative 'Total Exc Sub' into exactly 0
\* and leaves every other value as it was, and 'Total Exc Sub' >= 0 holds in
\* every row from then on (statistics, plots, year slices).
C2_TotalFlooredAtZero ==
  /\ last = "clip" =>
       \A i \in Rows :
         ge_data[i]["Total Exc Sub"] =
           IF prev[i]["Total Exc Sub"].n < 0 THEN IntCell(0)
           ELSE prev[i]["Total Exc Sub"]
  /\ Cleaned =>
       /\ \A i \in Rows :
            ge_data[i]["Total Exc Sub"].k = "int"
            /\ ge_data[i]["Total Exc Sub"].n >= 0
       /\ \A y \in Years : \A j \in 1..Len(slices[y]) :
            slices[y][j]["Total Exc Sub"].n >= 0

C2_Witness ==
  /\ pc = "done"
  /\ \E i \in Rows :
       /\ csv[i]["Total Exc Sub"] = StrCell(<<"-", "1">>)
       /\ ge_data[i]["Total Exc Sub"] = IntCell(0)
  /\ \E i \in Rows : ge_data[i]["Total Exc Sub"] = IntCell(12)

\* C3: at the end of the cleaning pipeline a Comments cell that was text is
\* null exactly when its trimmed text was "0", and every other comment,
\* the single token '-' included, still holds its trimmed text.
C3_CommentsNullIffZeroText ==
  Cleaned =>
    \A i \in Rows :
      csv[i]["Comments"].k = "str" =>
        LET t == TrimmedText(csv[i]["Comments"]) IN
          IF t = <<"0">> THEN ge_data[i]["Comments"] = Null
          ELSE ge_data[i]["Comments"] = StrCell(t)

\* A text a numeric column may hold on input without tripping the casts:
\* digits, the placeholder, or (in 'Up to 1 hr' alone) the known typo.
ExpectedToken(c, cell) ==
  /\ cell.k = "str"
  /\ \/ AllDigits(cell.s)
     \/ cell.s = <<"-">>
     \/ c = "Up to 1 hr" /\ cell.s = <<"1", ",", "6", "7", "8">>

ExpectedInput ==
  \A i \in 1..Len(csv) : \A c \in NumericCols : ExpectedToken(c, csv[i][c])

\* C4: the substitutions reach a column before its cast: on an input whose
\* numeric cells are digit strings, '-', or '1,678' in 'Up to 1 hr', no cast
\* fails, every '-' cell ends as integer 0 and every '1,678' cell of
\* 'Up to 1 hr' ends as integer 167.
C4_SubstitutionBeforeCast ==
  ExpectedInput =>
    /\ ~(pc = "failed" /\ last \in {"upto1", "coerce"})
    /\ last \in {"upto1", "coerce"} /\ pc # "failed" =>
         \A i \in Rows :
           \A c \in IF last = "upto1" THEN {"Up to 1 hr"}
                    ELSE NumericCols \ {"Up to 1 hr"} :
             ge_data[i][c].k = "int"
    /\ Cleaned =>
         \A i \in Rows : \A c \in NumericCols :
           /\ csv[i][c].s = <<"-">> => ge_data[i][c] = IntCell(0)
           /\ csv[i][c].s = <<"1", ",", "6", "7", "8">> =>
                ge_data[i][c] = IntCell(167)
           /\ AllDigits(csv[i][c].s) =>
                ge_data[i][c] = IntCell(DigitsVal(csv[i][c].s))

C4_Witness ==
  /\ pc = "done"
  /\ ExpectedInput
  /\ \E i \in Rows :
       /\ csv[i]["Up to 1 hr"].s = <<"1", ",", "6", "7", "8">>
       /\ ge_data[i]["Up to 1 hr"] = IntCell(167)
  /\ \E i \in Rows :
       /\ csv[i]["Total Exc Sub"].s = <<"-">>
       /\ ge_data[i]["Total Exc Sub"] = IntCell(0)

\* C5: running the repair cells a second time, in the same order, on a
\* table the pipeline has cleaned never fails and never changes a cell.
C5_RepairIdempotent ==
  pass = 2 => pc # "failed" /\ ge_data = cleaned

C5_Witness ==
  /\ pass = 2
  /\ pc = "explore"
  /\ \E i \in Rows : csv[i]["Up to 1 hr"].s = <<"-">>
  /\ \E i \in Rows : csv[i]["Total Exc Sub"].s = <<"-", "1">>

\* A text no integer cast accepts: it holds a character that is no digit,
\* sign or blank, or it holds no digit at all.
NonNumericToken(cell) ==
  /\ cell.k = "str"
  /\ \/ \E j \in 1..Len(cell.s) :
          cell.s[j] \notin Digits \cup {"-", "+", " "}
     \/ \A j \in 1..Len(cell.s) : cell.s[j] \notin Digits

ColumnHoldsToken(T, c) == \E i \in 1..Len(T) : NonNumericToken(T[i][c])

\* C6: a non-numeric token left in a numeric column after the substitutions
\* makes the pipeline fail at the cast of the first such column, nothing runs
\* after a failure, and a table that came through the cleaning holds only
\* integers in its numeric columns.
C6_CoercionFailsHard ==
  /\ (/\ last = "upto1"
      /\ \E i \in 1..Len(prev) :
           /\ NonNumericToken(prev[i]["Up to 1 hr"])
           /\ prev[i]["Up to 1 hr"].s \notin
                {<<"-">>, <<"1", ",", "6", "7", "8">>})
     => /\ pc = "failed"
        /\ failedAt = "Up to 1 hr"
        /\ \A i \in Rows : ge_data[i]["Up to 1 hr"].k = "int"
                            \/ ge_data[i]["Up to 1 hr"] = prev[i]["Up to 1 hr"]
  /\ last = "coerce" =>
       \A j \in 1..Len(CoerceOrder) :
         (/\ ColumnHoldsToken(prev, CoerceOrder[j])
          /\ \A h \in 1..(j - 1) : ~ColumnHoldsToken(prev, CoerceOrder[h]))
         => /\ pc = "failed"
            /\ failedAt = CoerceOrder[j]
            /\ \A i \in Rows : \A h \in j..Len(CoerceOrder) :
                 ge_data[i][CoerceOrder[h]] = prev[i][CoerceOrder[h]]
  /\ pc = "failed" =>
       /\ ~ENABLED Next
       /\ slices = NoSlices
       /\ pass = 1 => cleaned = <<>>
  /\ pc \in {"comments", "clip"} \/ Cleaned =>
       \A i \in Rows : \A c \in NumericCols : ge_data[i][c].k = "int"

C6_Witness ==
  /\ pc = "failed"
  /\ failedAt = "1 to 2 hrs"
  /\ \E i \in Rows : ge_data[i]["1 to 2 hrs"].s = <<"1", ",", "6", "7", "8">>
  /\ \E i \in Rows : ge_data[i]["Subscribers"].s = <<"2", ",", "5">>

Week ==
  << <<"M","o","n">>, <<"T","u","e">>, <<"W","e","d">>, <<"T","h","u">>,
     <<"F","r","i">>, <<"S","a","t">>, <<"S","u","n">> >>

IsWeekday(t) == \E j \in 1..Len(Week) : Week[j] = t

Trimmed(t) == t = <<>> \/ (t[1] # " " /\ t[Len(t)] # " ")

\* The schema normaliser (categorical Day, parsed Date, whitespace removal)
\* has run in full.
Normalised ==
  pc \in {"upto1", "replace", "coerce", "comments", "clip"} \/ Cleaned

\* C8: whitespace is stripped before Day and Date are typed: the two columns
\* are found under their trimmed labels, afterwards no label and no text cell
\* has surrounding whitespace, and a raw weekday cell that is canonical up to
\* surrounding whitespace ends as that category.
C8_StripBeforeTyping ==
  /\ pc = "failed" /\ last \in {"day", "date"} =>
       HasLabel(labels, "Day") /\ HasLabel(labels, "Date")
  /\ Normalised =>
       /\ \A c \in Cols : Trimmed(labels[c])
       /\ \A i \in Rows : \A c \in Cols :
            ge_data[i][c].k = "str" => Trimmed(ge_data[i][c].s)
       /\ \A i \in Rows :
            IsWeekday(TrimmedText(csv[i]["Day"])) =>
              ge_data[i]["Day"] = CatCell(TrimmedText(csv[i]["Day"]))

YearOf(cell) == cell.n \div 10000

Dated(cell, y) ==
  /\ cell.k = "date"
  /\ y * 10000 + 101 <= cell.n
  /\ cell.n <= y * 10000 + 1231

InSlice(i, y) == \E j \in 1..Len(slices[y]) : slices[y][j] = ge_data[i]

\* C9: the slice of year Y in 2018..2022 holds exactly the cleaned rows dated
\* from Y-01-01 to Y-12-31, both ends included, in table order; the slices
\* are pairwise disjoint, rows dated outside 2018..2022 are in none, and
\* slicing leaves the cleaned table as it was.
C9_YearPartition ==
  pc = "done" =>
    /\ \A y \in 2018..2022 :
         slices[y] = SelectSeq(ge_data, LAMBDA r : Dated(r["Date"], y))
    /\ \A i \in Rows :
         LET d == ge_data[i]["Date"] IN
           IF d.k = "date" /\ YearOf(d) \in 2018..2022
           THEN /\ InSlice(i, YearOf(d))
                /\ \A y \in (2018..2022) \ {YearOf(d)} : ~InSlice(i, y)
           ELSE \A y \in 2018..2022 : ~InSlice(i, y)
    /\ ge_data = prev

C9_Witness ==
  /\ pc = "done"
  /\ \E i \in Rows : ge_data[i]["Date"] = DateCell(20181231) /\ InSlice(i, 2018)
  /\ \E i \in Rows : ge_data[i]["Date"] = DateCell(20190101) /\ InSlice(i, 2019)

SameExcept(A, B, c) ==
  /\ Len(A) = Len(B)
  /\ \A i \in 1..Len(A) : \A d \in Cols \ {c} : A[i][d] = B[i][d]

\* C10: every stage keeps the number of rows the file had, and the typo
\* correction, the "0"-to-null replacement and the negative clip each leave
\* every cell outside their own column as it was.
C10_Frame ==
  /\ pc # "read" => Len(ge_data) = Len(csv) /\ Len(prev) = Len(csv)
  /\ last = "upto1" => SameExcept(prev, ge_data, "Up to 1 hr")
  /\ last = "comments" => SameExcept(prev, ge_data, "Comments")
  /\ last = "clip" => SameExcept(prev, ge_data, "Total Exc Sub")

C10_Witness ==
  /\ last = "clip"
  /\ pass = 1
  /\ \E i \in Rows :
       /\ csv[i]["Up to 1 hr"].s = <<"1", ",", "6", "7", "8">>
       /\ ge_data[i]["Up to 1 hr"] = IntCell(167)
  /\ \E i \in Rows :
       /\ prev[i]["Total Exc Sub"].n < 0
       /\ ge_data[i]["Total Exc Sub"] = IntCell(0)

====
